---- MODULE Spec2Model ----
(***************************************************************************)
(* Model of OpenGLProxy (app/render/backend/opengl/openglproxy.cpp): the   *)
(* per-worker object that owns one OpenGL context, one framebuffer, a      *)
(* shader cache, a colour-processor cache and a texture cache, and that    *)
(* uploads frames, runs a node's shader and reads textures back.           *)
(*                                                                         *)
(* Every public method is one action.  The GL calls a method makes are     *)
(* executed, in program order, on a record `g` holding the GL state the    *)
(* method touches; each call appends an entry to g.log together with the   *)
(* framebuffer and texture-unit state right after it, so that the order of *)
(* calls inside one method is part of the state (lastCall.log).            *)
(***************************************************************************)
EXTENDS Integers, Sequences, FiniteSets, TLC

(***************************************************************************)
(* Bounds of the model.                                                    *)
(***************************************************************************)
MaxCtx == 2          \* QOpenGLContext objects ever created (calls of Init)
MaxShaders == 3      \* OpenGLShader objects ever created (compilations)
MaxTex == 4          \* textures the texture cache ever allocates
MaxIter == 3         \* largest Node::ShaderIterations()

(***************************************************************************)
(* Input domains.                                                          *)
(***************************************************************************)
Threads == {"control", "worker"}
OwningWorker == "worker"                 \* this->thread()
NodeIds == {"blur", "mask"}              \* Node::id()
ShaderIds == {"blur", "mask:rgb"}        \* Node::ShaderID(input_params)
ColorKeys == {"srgb", "rec709"}          \* get_colorspace_match_string()
Modes == {"Accurate", "Fast", "Disabled"} \* ColorManager::OCIOMethod
Formats == {"RGB8", "RGBA8", "RGB32F", "RGBA32F"}  \* PixelFormat::Format
TargetFormat == "RGBA32F"                \* VideoParams::format() of a render

VARIABLES
  ctx_,            \* QOpenGLContext* : 0 (nullptr) or an index into contexts
  functions_,      \* QOpenGLFunctions* : 0 or the context it belongs to
  copy_pipeline_,  \* OpenGLShaderPtr : TRUE when non-null
  buffer_,         \* OpenGLFramebuffer : [ctx, attached, bound]
  shader_cache_,   \* QMap<QString, OpenGLShaderPtr> : key -> index into shaders, 0 = absent
  color_cache_,    \* key -> index into processors, 0 = absent
  texture_cache_,  \* OpenGLTextureCache : [textures, live]
  gl,              \* state of the current GL context: [units, active, viewport, pack]
  contexts,        \* every QOpenGLContext ever allocated: [valid, destroyed]
  shaders,         \* every OpenGLShader ever created: [id, sid, linked, ctx]
  processors,      \* every OpenGLColorProcessor ever created: [key, enabled]
  pending,         \* queued FinishInit invocations in the owning worker's event loop
  lastCall,        \* the last method that ran: its inputs, result and GL call log
  crashed          \* the process dereferenced a null pointer

vars == << ctx_, functions_, copy_pipeline_, buffer_, shader_cache_, color_cache_,
           texture_cache_, gl, contexts, shaders, processors, pending, lastCall, crashed >>

proxy == << ctx_, functions_, copy_pipeline_, buffer_, shader_cache_, color_cache_,
            texture_cache_ >>

Units == 0 .. 1

NoFramebuffer == [ctx |-> 0, attached |-> 0, bound |-> FALSE]

DefaultGL == [units |-> [u \in Units |-> 0], active |-> 0,
              viewport |-> <<0, 0>>, pack |-> 0]

CacheKeys == NodeIds \cup ShaderIds

(***************************************************************************)
(* OpenGLProxy::OpenGLProxy                                                *)
(***************************************************************************)
Init ==
  /\ ctx_ = 0
  /\ functions_ = 0
  /\ copy_pipeline_ = FALSE
  /\ buffer_ = NoFramebuffer
  /\ shader_cache_ = [k \in CacheKeys |-> 0]
  /\ color_cache_ = [k \in ColorKeys |-> 0]
  /\ texture_cache_ = [textures |-> << >>, live |-> {}]
  /\ gl = DefaultGL
  /\ contexts = << >>
  /\ shaders = << >>
  /\ processors = << >>
  /\ pending = 0
  /\ lastCall = [op |-> "new"]
  /\ crashed = FALSE

(***************************************************************************)
(* A method that dereferences a null pointer ends the process.             *)
(***************************************************************************)
Crash(op) ==
  /\ crashed' = TRUE
  /\ lastCall' = [op |-> "Crash", in |-> op]
  /\ UNCHANGED << ctx_, functions_, copy_pipeline_, buffer_, shader_cache_, color_cache_,
                  texture_cache_, gl, contexts, shaders, processors >>

(***************************************************************************)
(* OpenGLProxy::Init, called on thread th; ok is the result of             *)
(* QOpenGLContext::create().                                               *)
(***************************************************************************)
\* faulty variant: the early return of a failed create() is missing
InitSchedules_Always(ok) == 1

\* lines 57-65: FinishInit is queued unless create() failed
InitSchedules(ok) == IF ok THEN 1 ELSE 0

ProxyInit(th, ok) ==
  /\ ~crashed
  /\ Len(contexts) < MaxCtx
  /\ contexts' = Append(contexts, [valid |-> ok, destroyed |-> 0])
  /\ ctx_' = Len(contexts) + 1
  /\ pending' = pending + InitSchedules(ok)
  /\ lastCall' = [op |-> "Init", thread |-> th, created |-> ok, ret |-> ok,
                  queued |-> InitSchedules(ok)]
  /\ UNCHANGED << functions_, copy_pipeline_, buffer_, shader_cache_, color_cache_,
                  texture_cache_, gl, shaders, processors, crashed >>

(***************************************************************************)
(* OpenGLProxy::FinishInit, delivered by the owning worker's event loop;   *)
(* mc is the result of QOpenGLContext::makeCurrent().                      *)
(***************************************************************************)
FinishInit(mc) ==
  /\ ~crashed
  /\ pending > 0
  /\ pending' = pending - 1
  /\ IF ctx_ = 0
       THEN /\ mc
            /\ Crash("FinishInit")
       ELSE /\ mc => contexts[ctx_].valid
            /\ lastCall' = [op |-> "FinishInit", thread |-> OwningWorker, ctx |-> ctx_, ret |-> mc]
            /\ IF mc
                 THEN /\ functions_' = ctx_
                      /\ buffer_' = [ctx |-> ctx_, attached |-> 0, bound |-> FALSE]
                      /\ copy_pipeline_' = TRUE
                      /\ gl' = IF functions_ = ctx_ THEN gl ELSE DefaultGL
                 ELSE UNCHANGED << functions_, buffer_, copy_pipeline_, gl >>
            /\ UNCHANGED << ctx_, shader_cache_, color_cache_, texture_cache_, contexts,
                            shaders, processors, crashed >>

(***************************************************************************)
(* OpenGLProxy::Close (also run by the destructor).                        *)
(***************************************************************************)
DeleteCtx(cs, c) ==
  IF c = 0 THEN cs ELSE [cs EXCEPT ![c].destroyed = @ + 1]

\* faulty variant: ctx_ is deleted but not reset
CloseCtx_Keep(c) == c

\* line 185: ctx_ = nullptr
CloseCtx(c) == 0

Close ==
  /\ ~crashed
  /\ shader_cache_' = [k \in CacheKeys |-> 0]
  /\ buffer_' = NoFramebuffer
  /\ copy_pipeline_' = FALSE
  /\ functions_' = 0
  /\ contexts' = DeleteCtx(contexts, ctx_)
  /\ ctx_' = CloseCtx(ctx_)
  /\ gl' = DefaultGL
  /\ lastCall' = [op |-> "Close", deleted |-> ctx_]
  /\ UNCHANGED << color_cache_, texture_cache_, shaders, processors, pending, crashed >>

(***************************************************************************)
(* GL calls.  g = [fb, units, active, viewport, pack, log]; every call     *)
(* appends [e, arg, att, bound, units]: its name, its argument, and the    *)
(* framebuffer's attachment and binding right after it; a call that draws  *)
(* or reads also records the texture bound to every texture unit.          *)
(***************************************************************************)
Emit(g, e, a) ==
  [g EXCEPT !.log = Append(@, [e |-> e, arg |-> a, att |-> g.fb.attached,
                               bound |-> g.fb.bound, units |-> << >>])]

Draws(g, e, a) ==
  [g EXCEPT !.log = Append(@, [e |-> e, arg |-> a, att |-> g.fb.attached,
                               bound |-> g.fb.bound, units |-> g.units])]

Enter == [fb |-> buffer_, units |-> gl.units, active |-> gl.active,
          viewport |-> gl.viewport, pack |-> gl.pack, log |-> << >>]

Leave(g) == [units |-> g.units, active |-> g.active, viewport |-> g.viewport, pack |-> g.pack]

FbAttach(g, t) == Emit([g EXCEPT !.fb.attached = t], "Attach", t)
FbBind(g) == Emit([g EXCEPT !.fb.bound = TRUE], "Bind", 0)
FbRelease(g) == Emit([g EXCEPT !.fb.bound = FALSE], "Release", 0)
FbDetach(g) == Emit([g EXCEPT !.fb.attached = 0], "Detach", 0)

glActiveTexture(g, u) == Emit([g EXCEPT !.active = u], "glActiveTexture", u)
glBindTexture(g, t) ==
  Emit([g EXCEPT !.units = [u \in DOMAIN g.units \cup {g.active} |->
                              IF u = g.active THEN t
                              ELSE g.units[u]]], "glBindTexture", t)
glViewport(g, w, h) == Emit([g EXCEPT !.viewport = <<w, h>>], "glViewport", 0)
glPixelStorei(g, n) == Emit([g EXCEPT !.pack = n], "glPixelStorei", n)
glReadPixels(g) == Draws(g, "glReadPixels", g.fb.attached)
Blit(g, program) == Draws(g, "Draw", program)

(***************************************************************************)
(* OpenGLTextureCache: Get leases an idle texture of the same context and  *)
(* shape or allocates one; a texture is idle when no handle refers to it.  *)
(***************************************************************************)
TexSpec(c, w, h, f) == [ctx |-> c, w |-> w, h |-> h, fmt |-> f]

IdleMatching(tc, spec) ==
  { i \in 1 .. Len(tc.textures) : i \notin tc.live /\ tc.textures[i] = spec }

Min(S) == CHOOSE x \in S : \A y \in S : x <= y

CacheGet(tc, spec) ==
  IF IdleMatching(tc, spec) # {}
    THEN [tc |-> [tc EXCEPT !.live = @ \cup {Min(IdleMatching(tc, spec))}],
          tex |-> Min(IdleMatching(tc, spec))]
    ELSE [tc |-> [textures |-> Append(tc.textures, spec),
                  live |-> tc.live \cup {Len(tc.textures) + 1}],
          tex |-> Len(tc.textures) + 1]

CacheDrop(tc, t) == [tc EXCEPT !.live = @ \ {t}]

(***************************************************************************)
(* The caller lets go of a texture handle it was given.                    *)
(***************************************************************************)
ReleaseHandle(t) ==
  /\ ~crashed
  /\ t \in texture_cache_.live
  /\ texture_cache_' = CacheDrop(texture_cache_, t)
  /\ lastCall' = [op |-> "ReleaseHandle", tex |-> t]
  /\ UNCHANGED << ctx_, functions_, copy_pipeline_, buffer_, shader_cache_, color_cache_,
                  gl, contexts, shaders, processors, pending, crashed >>

(***************************************************************************)
(* qRound of a non-negative quotient n/d, as qRound(double) rounds it.     *)
(***************************************************************************)
qRound(n, d) == (2 * n + d) \div (2 * d)

FormatHasAlphaChannel(f) == f \in {"RGBA8", "RGBA32F"}
FloatFormat(f) == IF FormatHasAlphaChannel(f) THEN "RGBA32F" ELSE "RGB32F"

(***************************************************************************)
(* OpenGLProxy::FrameToValue.  frame = [w, h, fmt, sar], sar = <<num,den>>;*)
(* stream = [key, premult]; params = [w, h, fmt]; mode is the OCIO method  *)
(* of the render mode.                                                     *)
(***************************************************************************)
\* line 77: color_cache_.value(colorspace_match)
ColorLookup(cache, key) == cache[key]

\* faulty variant: the processor is created but not put in the cache
ColorInsert_Forget(cache, key, p) == cache

\* line 83: color_cache_.insert(colorspace_match, color_processor)
ColorInsert(cache, key, p) == [cache EXCEPT ![key] = p]

\* lines 89-114: the CPU colour transform of the accurate path
AccurateFrame(frame, stream, mode) ==
  IF mode = "Accurate" THEN [frame EXCEPT !.fmt = FloatFormat(frame.fmt)] ELSE frame

\* faulty variant: the CPU transform runs whatever the method
AccurateLog_Always(g, frame, stream, mode, p) ==
  Emit(Emit(Emit(g, "ConvertPixelFormat", 0), "ConvertFrame", p), "AssociateAlpha", 0)

AccurateLog(g, frame, stream, mode, p) ==
  IF mode # "Accurate" THEN g
  ELSE LET has_alpha == FormatHasAlphaChannel(frame.fmt)
           g1 == Emit(g, "ConvertPixelFormat", 0)
           g2 == IF has_alpha /\ stream.premult THEN Emit(g1, "DisassociateAlpha", 0) ELSE g1
           g3 == Emit(g2, "ConvertFrame", p)
       IN  IF has_alpha
             THEN IF stream.premult THEN Emit(g3, "ReassociateAlpha", 0)
                  ELSE Emit(g3, "AssociateAlpha", 0)
             ELSE g3

\* lines 123-148: the shape of the destination of the GPU colour transform
AspectCorrected(mode) == mode = "Fast"

DestSize(frame) ==
  LET num == frame.sar[1]
      den == frame.sar[2]
  IN  IF num # den /\ num # 0
        THEN IF num > den
               THEN << qRound(frame.w * num, den), frame.h >>
               ELSE << frame.w, qRound(frame.h * den, num) >>
        ELSE << frame.w, frame.h >>

\* lines 153-165: the blit through the OCIO shader
ProcessBlit(g, src, dst, dstSpec, p) ==
  LET g1 == FbAttach(g, dst)
      g2 == FbBind(g1)
      g3 == glBindTexture(g2, src)
      g4 == glViewport(g3, dstSpec.w, dstSpec.h)
      g5 == Draws(g4, "ProcessOpenGL", p)
      g6 == glBindTexture(g5, 0)
      g7 == FbRelease(g6)
  IN  FbDetach(g7)

\* lines 77-84: the processor of the stream's colour space
ColorProcessorFor(hit) == IF hit = 0 THEN Len(processors) + 1 ELSE hit

ColorProcessors(hit, key) ==
  IF hit = 0 THEN Append(processors, [key |-> key, enabled |-> 0]) ELSE processors

\* lines 119-121: enable the processor's GPU resources on first use
EnableFor(procs, p, c) ==
  IF procs[p].enabled = 0 THEN [procs EXCEPT ![p].enabled = c] ELSE procs

EnableLog(g, procs, p) ==
  IF procs[p].enabled = 0 THEN Emit(g, "Enable", p) ELSE g

\* A call on a proxy that has no function table.  The GPU path calls through the
\* null functions_ (line 158).  The other paths reach the context only through
\* texture_cache_.Get(ctx_, frame): through a null ctx_ that ends the process, and
\* with a context that was never made current it may end it or go through.
GoesThrough(mode) == functions_ # 0 \/ (ctx_ # 0 /\ mode # "Fast")

\* line 170: the value handed back, and the state the call leaves
FrameToValueReturns(frame, stream, params, mode, hit, p, procs, tc, ret, g) ==
  /\ Len(tc.textures) <= MaxTex
  /\ color_cache_' = IF hit = 0 THEN ColorInsert(color_cache_, stream.key, p)
                     ELSE color_cache_
  /\ processors' = procs
  /\ texture_cache_' = tc
  /\ buffer_' = g.fb
  /\ gl' = Leave(g)
  /\ lastCall' = [op |-> "FrameToValue", frame |-> frame, stream |-> stream,
                  params |-> params, mode |-> mode, proc |-> p, created |-> hit = 0,
                  ret |-> ret, tex |-> tc.textures[ret], log |-> g.log]
  /\ UNCHANGED << ctx_, functions_, copy_pipeline_, shader_cache_, contexts,
                  shaders, pending, crashed >>

FrameToValue(frame, stream, params, mode) ==
  /\ ~crashed
  /\ \/ /\ functions_ = 0
        /\ Crash("FrameToValue")
        /\ UNCHANGED pending
     \/ /\ GoesThrough(mode)
        /\ \E hit \in {ColorLookup(color_cache_, stream.key)} :
             \E p \in {ColorProcessorFor(hit)} :
             \E procs1 \in {ColorProcessors(hit, stream.key)} :
             \E up \in {AccurateFrame(frame, stream, mode)} :
             \E c1 \in {CacheGet(texture_cache_, TexSpec(ctx_, up.w, up.h, up.fmt))} :
             \E g1 \in {Emit(AccurateLog(IF hit = 0 THEN Emit(Enter, "Create", p) ELSE Enter,
                                         frame, stream, mode, p), "Upload", c1.tex)} :
               IF AspectCorrected(mode)
                 THEN \E size \in {DestSize(up)} :
                      \E dspec \in {TexSpec(ctx_, size[1], size[2], params.fmt)} :
                      \E c2 \in {CacheGet(c1.tc, dspec)} :
                      \E g2 \in {ProcessBlit(EnableLog(g1, procs1, p), c1.tex, c2.tex,
                                            dspec, p)} :
                        FrameToValueReturns(frame, stream, params, mode, hit, p,
                                            EnableFor(procs1, p, ctx_),
                                            CacheDrop(c2.tc, c1.tex), c2.tex, g2)
                 ELSE FrameToValueReturns(frame, stream, params, mode, hit, p, procs1,
                                          c1.tc, c1.tex, g1)

(***************************************************************************)
(* OpenGLProxy::PreCachedFrameToValue                                      *)
(***************************************************************************)
PreCachedFrameToValue(frame) ==
  LET c1 == CacheGet(texture_cache_, TexSpec(ctx_, frame.w, frame.h, frame.fmt))
  IN  /\ ~crashed
      /\ \/ /\ functions_ = 0
            /\ Crash("PreCachedFrameToValue")
            /\ UNCHANGED pending
         \/ /\ GoesThrough("Disabled")
            /\ Len(c1.tc.textures) <= MaxTex
            /\ texture_cache_' = c1.tc
            /\ lastCall' = [op |-> "PreCachedFrameToValue", frame |-> frame, ret |-> c1.tex,
                            tex |-> c1.tc.textures[c1.tex]]
            /\ UNCHANGED << ctx_, functions_, copy_pipeline_, buffer_, shader_cache_,
                            color_cache_, gl, contexts, shaders, processors, pending,
                            crashed >>

(***************************************************************************)
(* OpenGLProxy::RunNodeAccelerated.                                        *)
(* node = [id, sid, iters, params, iterIn]: Node::id(), Node::ShaderID(),  *)
(* Node::ShaderIterations(), Node::parameters() and the position in        *)
(* params of Node::ShaderIterativeInput() (0 when it is null).             *)
(* A parameter is [kind, live, val, en]: the data type the switch          *)
(* dispatches on, whether the program has a uniform of its name, the       *)
(* texture its value holds (0 for none) and whether the program declares   *)
(* <name>_enabled.  linkOK is the result of QOpenGLShaderProgram::link().  *)
(***************************************************************************)
ShaderLookupKey(node) == node.sid

ShaderInsertKey(node) == node.id

\* lines 196-217: compile and link on a miss, then store
ShaderStored(linkOK) == TRUE

\* lines 219-227: the destination textures
WantsPingPong(node) == node.iters > 1 /\ node.iterIn # 0

\* faulty variant: an input that holds no texture is given no unit and no flag
BindTextureInput_SkipNull(r, param, isIter) ==
  IF param.val = 0 THEN r
  ELSE LET g3 == Emit(glBindTexture(glActiveTexture(r.g, r.count), param.val),
                      "setUniformValue", r.count)
       IN  [g |-> IF param.en THEN Emit(g3, "setEnabled", 1) ELSE g3,
            count |-> r.count + 1,
            iterative_input |-> IF isIter THEN r.count ELSE r.iterative_input]

\* lines 308-348: one texture, buffer or footage input
BindTextureInput(r, param, isIter) ==
  LET g1 == glActiveTexture(r.g, r.count)
      g2 == glBindTexture(g1, param.val)
      g3 == Emit(g2, "setUniformValue", r.count)
      g4 == IF param.en
              THEN Emit(g3, "setEnabled", IF param.val > 0 THEN 1 ELSE 0)
              ELSE g3
  IN  [g |-> g4,
       count |-> r.count + 1,
       iterative_input |-> IF isIter THEN r.count ELSE r.iterative_input]

\* lines 234-364: foreach parameter of the node
RECURSIVE ResolveInputs(_, _, _)
ResolveInputs(r, node, i) ==
  IF i > Len(node.params) THEN r
  ELSE LET param == node.params[i]
           r1 == IF ~param.live THEN r
                 ELSE IF param.kind = "tex" THEN BindTextureInput(r, param, i = node.iterIn)
                 ELSE [r EXCEPT !.g = Emit(r.g, "setUniformValue", 0)]
       IN  ResolveInputs(r1, node, i + 1)

\* faulty variant: the index is not taken modulo the size, every iteration uses dst_refs[0]
DstAt_First(dst, n) == dst[1]

\* lines 392-393: dst_refs.at(n % dst_refs.size())
DstAt(dst, n) == dst[(n % Len(dst)) + 1]

\* lines 400-403: feed the last iteration's texture to the iterative input
Feedback(g, iteration, iterative_input, source_tex) ==
  IF iteration > 0
    THEN glBindTexture(glActiveTexture(g, iterative_input), source_tex)
    ELSE g

\* faulty variant: the framebuffer is released but the texture stays attached
DrawInto_NoDetach(g, destination_tex, shader) ==
  FbRelease(Blit(FbBind(FbAttach(g, destination_tex)), shader))

\* lines 405-412: one draw into destination_tex
DrawInto(g, destination_tex, shader) ==
  LET g1 == FbAttach(g, destination_tex)
      g2 == FbBind(g1)
      g3 == Blit(g2, shader)
      g4 == FbRelease(g3)
  IN  FbDetach(g4)

\* lines 390-416: the iterations; r = [g, output_tex]
RECURSIVE Iterate(_, _, _, _, _, _)
Iterate(r, iteration, iters, dst, iterative_input, shader) ==
  IF iteration >= iters THEN r
  ELSE LET source_tex == DstAt(dst, iteration + 1)
           destination_tex == DstAt(dst, iteration)
           g1 == Emit(r.g, "ove_iteration", iteration)
           g2 == Feedback(g1, iteration, iterative_input, source_tex)
           g3 == DrawInto(g2, destination_tex, shader)
       IN  Iterate([g |-> g3, output_tex |-> destination_tex],
                   iteration + 1, iters, dst, iterative_input, shader)

\* faulty variant: the loop stops one short (while input_texture_count > 1)
RECURSIVE ReleaseUnits_LeaveFirst(_, _)
ReleaseUnits_LeaveFirst(g, count) ==
  IF count > 1
    THEN ReleaseUnits_LeaveFirst(glBindTexture(glActiveTexture(g, count - 1), 0), count - 1)
    ELSE g

\* lines 418-425: release the textures bound before
RECURSIVE ReleaseUnits(_, _)
ReleaseUnits(g, count) ==
  IF count > 0
    THEN ReleaseUnits(glBindTexture(glActiveTexture(g, count - 1), 0), count - 1)
    ELSE g

\* lines 427-429: unbind the program and push the output texture
RunNodeReturns(node, params, linkOK, hit, shader, dst, tc, r1, r2, g) ==
  /\ Len(tc.textures) <= MaxTex
  /\ Len(shaders) + (IF hit = 0 THEN 1 ELSE 0) <= MaxShaders
  /\ shader_cache_' = IF hit = 0 /\ ShaderStored(linkOK)
                        THEN [shader_cache_ EXCEPT ![ShaderInsertKey(node)] = shader]
                        ELSE shader_cache_
  /\ shaders' = IF hit = 0
                  THEN Append(shaders, [id |-> node.id, sid |-> node.sid, linked |-> linkOK,
                                        ctx |-> ctx_])
                  ELSE shaders
  /\ texture_cache_' = [tc EXCEPT !.live = @ \ ({ dst[j] : j \in 1 .. Len(dst) }
                                                  \ {r2.output_tex})]
  /\ buffer_' = g.fb
  /\ gl' = Leave(g)
  /\ lastCall' = [op |-> "RunNodeAccelerated", node |-> node, params |-> params,
                  linkOK |-> linkOK, compiled |-> hit = 0, shader |-> shader,
                  dst |-> dst, inputs |-> r1.count,
                  iterative_input |-> r1.iterative_input,
                  ret |-> r2.output_tex, log |-> g.log]
  /\ UNCHANGED << ctx_, functions_, copy_pipeline_, color_cache_, contexts,
                  processors, pending, crashed >>

RunNodeAccelerated(node, params, linkOK) ==
  /\ ~crashed
  /\ IF functions_ = 0
       THEN /\ Crash("RunNodeAccelerated")
            /\ UNCHANGED pending
       ELSE \E hit \in {shader_cache_[ShaderLookupKey(node)]} :
            \E shader \in {IF hit = 0 THEN Len(shaders) + 1 ELSE hit} :
            \E spec \in {TexSpec(ctx_, params.w, params.h, params.fmt)} :
            \E c1 \in {CacheGet(texture_cache_, spec)} :
            \E c2 \in {IF WantsPingPong(node) THEN CacheGet(c1.tc, spec) ELSE c1} :
            \E dst \in {IF WantsPingPong(node) THEN << c1.tex, c2.tex >> ELSE << c1.tex >>} :
            \E g1 \in {Emit(IF hit = 0 THEN Emit(Enter, "link", shader) ELSE Enter,
                            "bind", shader)} :
            \E r1 \in {ResolveInputs([g |-> g1, count |-> 0, iterative_input |-> 0],
                                     node, 1)} :
            \E r2 \in {Iterate([g |-> glViewport(r1.g, params.w, params.h), output_tex |-> 0],
                               0, node.iters, dst, r1.iterative_input, shader)} :
            \E g2 \in {Emit(Emit(ReleaseUnits(r2.g, r1.count), "release", shader),
                            "Push", r2.output_tex)} :
              RunNodeReturns(node, params, linkOK, hit, shader, dst, c2.tc, r1, r2, g2)

(***************************************************************************)
(* OpenGLProxy::TextureToBuffer.  tex_in is the texture of the handle in   *)
(* the variant (0 for none); frame = [w, h, fmt, linesize].                *)
(***************************************************************************)
\* faulty variant: the viewport is set before the handle is tested
NullReturn_AfterViewport(g, frame) == glViewport(g, frame.w, frame.h)

\* lines 436-440: a null handle returns before any GL call
NullReturn(g, frame) == g

NeedsResize(frame, tex) == frame.w # tex.w \/ frame.h # tex.h

\* lines 450-465: blit to a texture of the frame's size
ResizeBlit(g, src, resized) ==
  LET g1 == FbAttach(g, resized)
      g2 == FbBind(g1)
      g3 == glBindTexture(g2, src)
      g4 == Blit(g3, 0)
      g5 == glBindTexture(g4, 0)
      g6 == FbRelease(g5)
  IN  FbDetach(g6)

\* faulty variant: the pack row length is not reset after the read
Download_NoReset(g, download_tex, frame) ==
  FbDetach(FbRelease(glReadPixels(glPixelStorei(FbBind(FbAttach(g, download_tex)),
                                                frame.linesize))))

\* lines 473-489: read the pixels back
Download(g, download_tex, frame) ==
  LET g1 == FbAttach(g, download_tex)
      g2 == FbBind(g1)
      g3 == glPixelStorei(g2, frame.linesize)
      g4 == glReadPixels(g3)
      g5 == glPixelStorei(g4, 0)
      g6 == FbRelease(g5)
  IN  FbDetach(g6)

TextureToBufferReturns(tex_in, frame, resized, download_tex, textures, g) ==
  /\ Len(textures) <= MaxTex
  /\ texture_cache_' = [texture_cache_ EXCEPT !.textures = textures]
  /\ buffer_' = g.fb
  /\ gl' = Leave(g)
  /\ lastCall' = [op |-> "TextureToBuffer", tex_in |-> tex_in, frame |-> frame,
                  resized |-> resized, read |-> download_tex, log |-> g.log]
  /\ UNCHANGED << ctx_, functions_, copy_pipeline_, shader_cache_, color_cache_,
                  contexts, shaders, processors, pending, crashed >>

TextureToBuffer(tex_in, frame) ==
  /\ ~crashed
  /\ IF tex_in = 0
       THEN \E g \in {NullReturn(Enter, frame)} :
            /\ buffer_' = g.fb
            /\ gl' = Leave(g)
            /\ lastCall' = [op |-> "TextureToBuffer", tex_in |-> 0, frame |-> frame,
                            resized |-> 0, read |-> 0, log |-> g.log]
            /\ UNCHANGED << ctx_, functions_, copy_pipeline_, shader_cache_,
                            color_cache_, texture_cache_, contexts, shaders, processors,
                            pending, crashed >>
       ELSE IF functions_ = 0
       THEN /\ Crash("TextureToBuffer")
            /\ UNCHANGED pending
       ELSE \E g1 \in {glViewport(Enter, frame.w, frame.h)} :
              IF NeedsResize(frame, texture_cache_.textures[tex_in])
                THEN \E c1 \in {CacheGet(texture_cache_,
                                         TexSpec(ctx_, frame.w, frame.h, frame.fmt))} :
                     \E g2 \in {Download(ResizeBlit(g1, tex_in, c1.tex), c1.tex, frame)} :
                       TextureToBufferReturns(tex_in, frame, c1.tex, c1.tex,
                                              c1.tc.textures, g2)
                ELSE \E g2 \in {Download(g1, tex_in, frame)} :
                       TextureToBufferReturns(tex_in, frame, 0, tex_in,
                                              texture_cache_.textures, g2)

(***************************************************************************)
(* Inputs.                                                                 *)
(***************************************************************************)
Frame(w, h, f, sar, linesize) ==
  [w |-> w, h |-> h, fmt |-> f, sar |-> sar, linesize |-> linesize]

Stream(key, premult) == [key |-> key, premult |-> premult]

VideoParams(w, h) == [w |-> w, h |-> h, fmt |-> TargetFormat]

Float == [kind |-> "float", live |-> TRUE, val |-> 0, en |-> FALSE]
Unused == [kind |-> "tex", live |-> FALSE, val |-> 0, en |-> FALSE]
TexIn(v) == [kind |-> "tex", live |-> TRUE, val |-> v, en |-> TRUE]
TexBare(v) == [kind |-> "tex", live |-> TRUE, val |-> v, en |-> FALSE]

Node(id, sid, iters, params, iterIn) ==
  [id |-> id, sid |-> sid, iters |-> iters, params |-> params, iterIn |-> iterIn]

Held == {0} \cup texture_cache_.live

OneHandle == Cardinality(texture_cache_.live) <= 1

(***************************************************************************)
(* The whole program, with few inputs of every kind: a caller that creates *)
(* a context when the proxy has none, uploads a frame when it holds no      *)
(* handle and holds at most one handle when it renders a node.             *)
(***************************************************************************)
F0 == Frame(2, 1, "RGBA32F", <<1, 1>>, 2)
F1 == Frame(1, 1, "RGBA32F", <<1, 1>>, 1)

Nodes == { Node("blur", "blur", k, << TexIn(v) >>, 1) : k \in {1, 2}, v \in Held }

Next ==
  \/ ctx_ = 0 /\ ProxyInit("control", TRUE)
  \/ FinishInit(TRUE)
  \/ Close
  \/ \E mode \in Modes :
       /\ texture_cache_.live = {}
       /\ FrameToValue(F0, Stream("srgb", TRUE), VideoParams(2, 1), mode)
  \/ texture_cache_.live = {} /\ PreCachedFrameToValue(F0)
  \/ \E node \in Nodes : OneHandle /\ RunNodeAccelerated(node, VideoParams(2, 1), TRUE)
  \/ \E t \in Held, frame \in {F0, F1} : TextureToBuffer(t, frame)
  \/ \E t \in texture_cache_.live : ReleaseHandle(t)

Spec == Init /\ [][Next]_vars

(***************************************************************************)
(* The life cycle: Init from any thread, with contexts that fail to be     *)
(* created or to be made current, in any order with Close and the queued   *)
(* FinishInit.                                                             *)
(***************************************************************************)
NextLifecycle ==
  \/ \E th \in Threads, ok \in BOOLEAN : ProxyInit(th, ok)
  \/ \E mc \in BOOLEAN : FinishInit(mc)
  \/ Close
  \/ TextureToBuffer(0, F0)

SpecLifecycle == Init /\ [][NextLifecycle]_vars

(***************************************************************************)
(* The shader cache: a node whose ShaderID is its id and one whose ShaderID *)
(* is not, each with the same ShaderID in every call; programs that link   *)
(* or fail to.                                                             *)
(***************************************************************************)
ShaderNodes == { Node("blur", "blur", 1, << >>, 0), Node("mask", "mask:rgb", 1, << >>, 0) }

NextShader ==
  \/ ctx_ = 0 /\ ProxyInit("control", TRUE)
  \/ FinishInit(TRUE)
  \/ Close
  \/ \E node \in ShaderNodes, linkOK \in BOOLEAN :
       OneHandle /\ RunNodeAccelerated(node, VideoParams(2, 1), linkOK)
  \/ \E t \in texture_cache_.live : ReleaseHandle(t)

SpecShader == Init /\ [][NextShader]_vars

(***************************************************************************)
(* One render call: every iteration count, parameter lists of up to two    *)
(* parameters of every kind, any of them the iterative input.              *)
(***************************************************************************)
ParamChoices == {Float, Unused} \cup { TexIn(v) : v \in Held } \cup { TexBare(v) : v \in Held }

ParamLists == {<< >>} \cup { << a >> : a \in ParamChoices }
                \cup { << a, b >> : a \in ParamChoices, b \in ParamChoices }

RenderNodes == UNION { { Node("blur", "blur", k, ps, it) : k \in 0 .. MaxIter,
                                                             it \in 0 .. Len(ps) } :
                       ps \in ParamLists }

NextNode ==
  \/ ctx_ = 0 /\ ProxyInit("control", TRUE)
  \/ FinishInit(TRUE)
  \/ OneHandle /\ PreCachedFrameToValue(F0)
  \/ \E node \in RenderNodes : OneHandle /\ RunNodeAccelerated(node, VideoParams(2, 1), TRUE)
  \/ \E t \in texture_cache_.live : ReleaseHandle(t)

SpecNode == Init /\ [][NextNode]_vars

(***************************************************************************)
(* Uploads across the life of the proxy: streams of two colour spaces in   *)
(* every render mode, before and after Close and a second context.         *)
(***************************************************************************)
F2 == Frame(2, 1, "RGBA8", <<1, 1>>, 2)

NextUpload ==
  \/ ctx_ = 0 /\ ProxyInit("control", TRUE)
  \/ FinishInit(TRUE)
  \/ Close
  \/ \E key \in ColorKeys, premult \in BOOLEAN, mode \in Modes :
       /\ texture_cache_.live = {}
       /\ FrameToValue(F2, Stream(key, premult), VideoParams(2, 1), mode)
  \/ \E t \in texture_cache_.live : ReleaseHandle(t)

SpecUpload == Init /\ [][NextUpload]_vars

(***************************************************************************)
(* The shape of an upload: a frame of every sample aspect ratio, with and  *)
(* without alpha, in every render mode.                                    *)
(***************************************************************************)
Ratios == { <<0, 1>>, <<1, 2>>, <<2, 3>>, <<1, 1>>, <<3, 2>>, <<2, 1>> }

AspectFrames == { Frame(3, 1, "RGBA8", sar, 3) : sar \in Ratios }

NextAspect ==
  \/ ctx_ = 0 /\ ProxyInit("control", TRUE)
  \/ FinishInit(TRUE)
  \/ \E frame \in AspectFrames, mode \in Modes :
       /\ texture_cache_.live = {}
       /\ FrameToValue(frame, Stream("srgb", FALSE), VideoParams(3, 1), mode)
  \/ \E t \in texture_cache_.live : ReleaseHandle(t)

SpecAspect == Init /\ [][NextAspect]_vars

(***************************************************************************)
(* Properties.                                                             *)
(***************************************************************************)
IsRun == lastCall.op = "RunNodeAccelerated"
IsUpload == lastCall.op = "FrameToValue"
IsDownload == lastCall.op = "TextureToBuffer"
HasLog == lastCall.op \in {"RunNodeAccelerated", "FrameToValue", "TextureToBuffer"}

IsDraw(x) == x.e = "Draw"
IsFbCall(x) == x.e \in {"Attach", "Bind", "Draw", "ProcessOpenGL", "glReadPixels",
                        "Release", "Detach"}

\* the programs compiled so far, in the current context, for the node of the last call
CompiledFor(node) ==
  { i \in 1 .. Len(shaders) : /\ shaders[i].id = node.id
                              /\ shaders[i].sid = node.sid
                              /\ shaders[i].ctx = ctx_ }

\* C1: a node whose shader identity is fixed is compiled once per proxy (until
\* Close), and every call after the first runs the program the first call stored.
C1_SingleCompilation ==
  IsRun => /\ Cardinality(CompiledFor(lastCall.node)) = 1
           /\ lastCall.shader \in CompiledFor(lastCall.node)

\* C2: when linking the node's program fails, the program is not put in the shader
\* cache, nothing is drawn and no output texture is pushed.
C2_CompileFailureUncached ==
  (IsRun /\ lastCall.compiled /\ ~lastCall.linkOK) =>
    /\ \A k \in CacheKeys : shader_cache_[k] # lastCall.shader
    /\ SelectSeq(lastCall.log, IsDraw) = << >>
    /\ lastCall.ret = 0

\* the framebuffer calls of a log are rounds of attach, bind, draw or read, release,
\* detach: the n-th of them is the call its place in the round asks for, it finds the
\* framebuffer as the calls before it left it, and the last round is complete
FbRound == << {"Attach"}, {"Bind"}, {"Draw", "ProcessOpenGL", "glReadPixels"},
              {"Release"}, {"Detach"} >>

FbProtocol(log) ==
  LET fb == SelectSeq(log, IsFbCall)
  IN  /\ Len(fb) % 5 = 0
      /\ \A n \in 1 .. Len(fb) :
           /\ fb[n].e \in FbRound[((n - 1) % 5) + 1]
           /\ fb[n].bound = (((n - 1) % 5) + 1 \in {2, 3})
           /\ (fb[n].att # 0) = (((n - 1) % 5) + 1 \in {1, 2, 3, 4})
           /\ ((n - 1) % 5) + 1 \in {2, 3, 4} => fb[n].att = fb[n - 1].att

\* C3: every operation that draws or reads takes the framebuffer through attach,
\* bind, draw or read, release, detach in that order, with one texture attached at
\* a time, and every public operation returns with the framebuffer neither bound
\* nor attached.
C3_FramebufferProtocol ==
  /\ buffer_.attached = 0
  /\ ~buffer_.bound
  /\ HasLog => FbProtocol(lastCall.log)
  /\ (IsUpload /\ lastCall.mode = "Fast") => Len(SelectSeq(lastCall.log, IsFbCall)) = 5
  /\ IsRun => Len(SelectSeq(lastCall.log, IsFbCall)) = 5 * lastCall.node.iters
  /\ (IsDownload /\ lastCall.tex_in # 0) =>
       Len(SelectSeq(lastCall.log, IsFbCall)) = IF lastCall.resized # 0 THEN 10 ELSE 5

\* C3 witness: a download that had to resize, so that both the blit and the read ran
C3_Witness == IsDownload /\ lastCall.resized # 0

DrawCalls == SelectSeq(lastCall.log, IsDraw)

\* a parameter that ResolveInputs gives a texture unit, the unit it gives the i-th
\* parameter, and the number of units it gives out
IsTexInput(param) == param.live /\ param.kind = "tex"
UnitOf(params, i) == Cardinality({ j \in 1 .. i - 1 : IsTexInput(params[j]) })
TexInputs(params) == UnitOf(params, Len(params) + 1)

\* C4: a node of K >= 1 iterations with a feedback input is drawn K times, draw i
\* into dst[i mod 2]; at every draw after the first the feedback input's texture
\* unit holds the texture the draw before wrote; two destinations are used once
\* K > 1, one otherwise; the texture pushed is the destination of the last draw.
C4_IterativeExecution ==
  (IsRun /\ lastCall.node.iters >= 1 /\ lastCall.node.iterIn # 0) =>
    LET node == lastCall.node
        K == node.iters
        dst == lastCall.dst
    IN  /\ Len(DrawCalls) = K
        /\ Len(dst) = IF K > 1 THEN 2 ELSE 1
        /\ \A i \in 0 .. K - 1 : DrawCalls[i + 1].att = dst[(i % 2) + 1] /\ DrawCalls[i + 1].bound
        /\ Cardinality({ DrawCalls[i].att : i \in 1 .. K }) = IF K > 1 THEN 2 ELSE 1
        /\ \A i \in 1 .. K - 1 :
             IsTexInput(node.params[node.iterIn]) =>
               DrawCalls[i + 1].units[UnitOf(node.params, node.iterIn)] = DrawCalls[i].att
        /\ lastCall.ret = DrawCalls[K].att

\* C4 witness: three iterations whose feedback input is the second of two bound
\* texture inputs
C4_Witness ==
  /\ IsRun
  /\ lastCall.node.iters = 3
  /\ lastCall.node.iterIn = 2
  /\ Len(lastCall.node.params) = 2
  /\ IsTexInput(lastCall.node.params[1])
  /\ IsTexInput(lastCall.node.params[2])
  /\ lastCall.node.params[2].val # 0

\* C5: when RunNodeAccelerated returns, the units 0..n-1 given to the n texture
\* inputs hold no texture, and they were released from n-1 down to 0, the last
\* thing before the program was released.
C5_UnitsReleased ==
  IsRun =>
    LET n == TexInputs(lastCall.node.params)
        log == lastCall.log
        base == Len(log) - 2 - 2 * n
    IN  /\ \A u \in 0 .. n - 1 : gl.units[u] = 0
        /\ log[Len(log) - 1].e = "release"
        /\ \A j \in 0 .. n - 1 :
             /\ log[base + 2 * j + 1].e = "glActiveTexture"
             /\ log[base + 2 * j + 1].arg = n - 1 - j
             /\ log[base + 2 * j + 2].e = "glBindTexture"
             /\ log[base + 2 * j + 2].arg = 0

\* C5 witness: two texture inputs that hold textures, drawn more than once
C5_Witness ==
  /\ IsRun
  /\ lastCall.node.iters >= 2
  /\ TexInputs(lastCall.node.params) = 2
  /\ \A j \in 1 .. 2 : lastCall.node.params[j].val # 0

\* C6: Close is safe in every state of the life cycle and leaves no context, no
\* function table and no copy program; no context is ever destroyed twice; a Close
\* that follows a Close changes nothing.
C6_CloseIdempotent ==
  [][ lastCall'.op = "Close" =>
        /\ ~crashed'
        /\ ctx_' = 0
        /\ functions_' = 0
        /\ copy_pipeline_' = FALSE
        /\ \A c \in 1 .. Len(contexts') : contexts'[c].destroyed <= 1
        /\ lastCall.op = "Close" =>
             /\ proxy' = proxy
             /\ contexts' = contexts
             /\ gl' = gl ]_vars

\* C6 witness: Close ran on a proxy whose context an earlier Close had destroyed
C6_Witness ==
  /\ lastCall.op = "Close"
  /\ lastCall.deleted = 0
  /\ \E c \in 1 .. Len(contexts) : contexts[c].destroyed = 1

\* C7: after Close the framebuffer and the context are destroyed and the shader
\* cache and the texture cache are empty.
C7_CloseReleasesAll ==
  lastCall.op = "Close" =>
    /\ buffer_ = NoFramebuffer
    /\ ctx_ = 0
    /\ lastCall.deleted # 0 => contexts[lastCall.deleted].destroyed = 1
    /\ \A k \in CacheKeys : shader_cache_[k] = 0
    /\ texture_cache_.textures = << >>

\* C8: Init returns false exactly when the context could not be created and then
\* queues nothing; an Init that returns true queues FinishInit once; FinishInit
\* runs only as a queued call, after Init has returned, on the owning worker.
C8_InitContract ==
  [][ /\ Len(contexts') # Len(contexts) =>
           /\ lastCall'.op = "Init"
           /\ lastCall'.ret = contexts'[Len(contexts')].valid
           /\ pending' = pending + (IF lastCall'.ret THEN 1 ELSE 0)
           /\ functions_' = functions_
           /\ buffer_' = buffer_
           /\ copy_pipeline_' = copy_pipeline_
      /\ pending' > pending => Len(contexts') = Len(contexts) + 1
      /\ pending' < pending =>
           /\ pending' = pending - 1
           /\ lastCall'.op \in {"FinishInit", "Crash"}
           /\ lastCall'.op = "FinishInit" => lastCall'.thread = OwningWorker
      /\ (functions_' # functions_ /\ functions_' # 0) => pending' = pending - 1 ]_vars

\* C8 witness: FinishInit has run on a proxy one of whose Init calls failed
C8_Witness ==
  /\ lastCall.op = "FinishInit"
  /\ lastCall.ret
  /\ \E c \in 1 .. Len(contexts) : ~contexts[c].valid

\* the integer nearest to n/d, halves upwards
Nearest(n, d) == (2 * n + d) \div (2 * d)

\* C9: in every render mode the texture FrameToValue returns is round(w*r) by h for
\* a sample aspect ratio r > 1, w by round(h/r) for r < 1, w by h for r = 1 or 0,
\* and never smaller than the frame.
C9_AspectCorrection ==
  IsUpload =>
    LET f == lastCall.frame
        num == f.sar[1]
        den == f.sar[2]
        t == lastCall.tex
    IN  /\ num > den => t.w = Nearest(f.w * num, den) /\ t.h = f.h
        /\ (0 < num /\ num < den) => t.w = f.w /\ t.h = Nearest(f.h * den, num)
        /\ (num = den \/ num = 0) => t.w = f.w /\ t.h = f.h
        /\ t.w >= f.w
        /\ t.h >= f.h

ProcessorsFor(key) == { i \in 1 .. Len(processors) : processors[i].key = key }

\* C10: over the life of the proxy at most one colour processor is created for a
\* colorspace-match key, and every FrameToValue call with that key uses it.
C10_ProcessorMemoized ==
  /\ \A key \in ColorKeys :
       /\ Cardinality(ProcessorsFor(key)) <= 1
       /\ ProcessorsFor(key) = IF color_cache_[key] = 0 THEN {} ELSE {color_cache_[key]}
  /\ IsUpload => lastCall.proc \in ProcessorsFor(lastCall.stream.key)

\* C10 witness: a call that found its processor in the cache, on a second context,
\* after both keys had been used
C10_Witness ==
  /\ IsUpload
  /\ ~lastCall.created
  /\ Len(processors) = 2
  /\ \E c \in 1 .. Len(contexts) : contexts[c].destroyed = 1
\* C11: TextureToBuffer of a null handle changes nothing: no GL call is made (so no
\* pixel is read into the frame), and the framebuffer, the viewport, the pack row
\* length, the texture units and the texture cache are as before, in every state
\* of the proxy, initialised or not.
C11_NullDownloadNoOp ==
  [][ (lastCall'.op = "TextureToBuffer" /\ lastCall'.tex_in = 0) =>
        /\ lastCall'.log = << >>
        /\ lastCall'.read = 0
        /\ proxy' = proxy
        /\ gl' = gl
        /\ contexts' = contexts
        /\ crashed' = crashed ]_vars

\* C11 witness: a null download on an initialised proxy whose viewport an earlier
\* call had set and whose cache holds a texture
C11_Witness ==
  /\ IsDownload
  /\ lastCall.tex_in = 0
  /\ functions_ # 0
  /\ gl.viewport # <<0, 0>>
  /\ Len(texture_cache_.textures) > 0
IsRead(x) == x.e = "glReadPixels"
IsPack(x) == x.e = "glPixelStorei"

\* C12: a download of a non-null texture reads the source itself when it has the
\* frame's width and height; otherwise it reads a texture of the frame's shape that
\* no handle held, filled by one blit of the source through the copy program, the
\* source being sampled and never attached; the pack row length is the frame's row
\* stride for the read and 0 again on return.
C12_DownloadResizes ==
  (IsDownload /\ lastCall.tex_in # 0) =>
    LET log == lastCall.log
        frame == lastCall.frame
        src == lastCall.tex_in
        shape == texture_cache_.textures[src]
        reads == SelectSeq(log, IsRead)
        blits == SelectSeq(log, IsDraw)
        packs == SelectSeq(log, IsPack)
    IN  /\ Len(reads) = 1
        /\ reads[1].att = lastCall.read
        /\ reads[1].bound
        /\ IF shape.w = frame.w /\ shape.h = frame.h
             THEN /\ blits = << >>
                  /\ lastCall.resized = 0
                  /\ lastCall.read = src
             ELSE /\ Len(blits) = 1
                  /\ blits[1].arg = 0
                  /\ blits[1].att = lastCall.resized
                  /\ blits[1].att # src
                  /\ \E u \in DOMAIN blits[1].units : blits[1].units[u] = src
                  /\ lastCall.read = lastCall.resized
                  /\ lastCall.resized \notin texture_cache_.live
                  /\ texture_cache_.textures[lastCall.resized].w = frame.w
                  /\ texture_cache_.textures[lastCall.resized].h = frame.h
        /\ Len(packs) = 2
        /\ \E i \in 1 .. Len(log) - 2 :
             /\ IsPack(log[i]) /\ log[i].arg = frame.linesize
             /\ IsRead(log[i + 1])
             /\ IsPack(log[i + 2]) /\ log[i + 2].arg = 0
        /\ gl.pack = 0

\* C12 witness: a 2x1 texture downloaded into a 1x1 frame
C12_Witness ==
  /\ IsDownload
  /\ lastCall.tex_in # 0
  /\ lastCall.resized # 0
  /\ lastCall.frame.w < texture_cache_.textures[lastCall.tex_in].w
  /\ gl.viewport = <<1, 1>>
\* the place in the log of a run where the calls of the i-th parameter start
LogOffset(i) ==
  LET params == lastCall.node.params
      before == 1 .. i - 1
  IN  (IF lastCall.compiled THEN 2 ELSE 1)
      + Cardinality({ j \in before : params[j].live /\ params[j].kind # "tex" })
      + 3 * Cardinality({ j \in before : IsTexInput(params[j]) })
      + Cardinality({ j \in before : IsTexInput(params[j]) /\ params[j].en })

\* C13: every texture input with a live uniform gets the next texture unit, holding
\* a texture or not; <name>_enabled, when the program declares it, is set to true
\* exactly when a texture was bound; and the call draws and pushes its output.
C13_NullInputNotAnError ==
  (IsRun /\ lastCall.node.iters >= 1) =>
    LET params == lastCall.node.params
        log == lastCall.log
    IN  /\ lastCall.inputs = TexInputs(params)
        /\ \A i \in 1 .. Len(params) :
             IsTexInput(params[i]) =>
               LET o == LogOffset(i)
                   u == UnitOf(params, i)
               IN  /\ log[o + 1].e = "glActiveTexture" /\ log[o + 1].arg = u
                   /\ log[o + 2].e = "glBindTexture" /\ log[o + 2].arg = params[i].val
                   /\ log[o + 3].e = "setUniformValue" /\ log[o + 3].arg = u
                   /\ (log[o + 4].e = "setEnabled") = params[i].en
                   /\ params[i].en => log[o + 4].arg = (IF params[i].val # 0 THEN 1 ELSE 0)
                   /\ DrawCalls[1].units[u] = params[i].val
        /\ Len(DrawCalls) = lastCall.node.iters
        /\ lastCall.ret # 0
        /\ log[Len(log)].e = "Push" /\ log[Len(log)].arg = lastCall.ret

\* C13 witness: a null texture input that declares its flag, ahead of an input that
\* holds a texture
C13_Witness ==
  /\ IsRun
  /\ lastCall.node.iters >= 1
  /\ Len(lastCall.node.params) = 2
  /\ lastCall.node.params[1] = TexIn(0)
  /\ IsTexInput(lastCall.node.params[2])
  /\ lastCall.node.params[2].val # 0
IsCpuTransform(x) == x.e = "ConvertFrame"
IsGpuTransform(x) == x.e = "ProcessOpenGL"
IsTexUpload(x) == x.e = "Upload"

\* the place of the one call named e in the log of the last operation
PosOf(e) == CHOOSE i \in 1 .. Len(lastCall.log) : lastCall.log[i].e = e

\* C14: an upload uploads once; the accurate method runs the CPU transform once,
\* before the upload, and no GPU transform; the fast method runs no CPU transform
\* and, after the upload, one GPU transform that samples the uploaded texture and
\* writes another texture, of the caller's format, which is returned; otherwise no
\* transform runs and the uploaded texture is returned.
C14_OneTransformPath ==
  IsUpload =>
    LET log == lastCall.log
        cpu == SelectSeq(log, IsCpuTransform)
        gpu == SelectSeq(log, IsGpuTransform)
        ups == SelectSeq(log, IsTexUpload)
    IN  /\ Len(ups) = 1
        /\ lastCall.mode = "Accurate" =>
             /\ Len(cpu) = 1
             /\ cpu[1].arg = lastCall.proc
             /\ gpu = << >>
             /\ PosOf("ConvertFrame") < PosOf("Upload")
             /\ lastCall.ret = ups[1].arg
        /\ lastCall.mode = "Fast" =>
             /\ cpu = << >>
             /\ Len(gpu) = 1
             /\ gpu[1].arg = lastCall.proc
             /\ PosOf("Upload") < PosOf("ProcessOpenGL")
             /\ \E u \in DOMAIN gpu[1].units : gpu[1].units[u] = ups[1].arg
             /\ gpu[1].att = lastCall.ret
             /\ gpu[1].bound
             /\ lastCall.ret # ups[1].arg
             /\ lastCall.tex.fmt = lastCall.params.fmt
        /\ lastCall.mode = "Disabled" =>
             /\ cpu = << >>
             /\ gpu = << >>
             /\ lastCall.ret = ups[1].arg

\* C14 witness: a fast upload of an 8-bit frame into a float target, by a processor
\* an earlier upload had created
C14_Witness ==
  /\ IsUpload
  /\ lastCall.mode = "Fast"
  /\ ~lastCall.created
  /\ lastCall.frame.fmt # lastCall.tex.fmt
\* C15: for a node that declares a feedback input, the iterations rebind the unit
\* ResolveInputs gave that input and no other: at every one of the K draws the unit
\* of every other texture input still holds the texture ResolveInputs bound to it.
C15_FeedbackOnlyUnit ==
  (IsRun /\ lastCall.node.iters >= 1 /\ lastCall.node.iterIn # 0) =>
    LET node == lastCall.node
        params == node.params
    IN  /\ IsTexInput(params[node.iterIn]) =>
             lastCall.iterative_input = UnitOf(params, node.iterIn)
        /\ \A i \in 1 .. Len(params) :
             (IsTexInput(params[i]) /\ i # node.iterIn) =>
               \A k \in 1 .. node.iters :
                 DrawCalls[k].units[UnitOf(params, i)] = params[i].val
\* the context objects that were allocated and not deleted
LiveContexts == { c \in 1 .. Len(contexts) : contexts[c].destroyed = 0 }

\* C16: the proxy never has more than one context object that is not deleted, and
\* when Close returns every context object it ever allocated has been deleted.
C16_OneContext ==
  /\ Cardinality(LiveContexts) <= 1
  /\ lastCall.op = "Close" => LiveContexts = {}
\* C17: whenever a queued FinishInit is delivered, the proxy has a context and that
\* context has not been deleted.
C17_FinishInitHasContext ==
  [][ pending' < pending => (ctx_ # 0 /\ contexts[ctx_].destroyed = 0) ]_vars
\* C18: at every draw of RunNodeAccelerated the texture attached to the framebuffer
\* is bound to none of the units the program samples (the units 0..n-1 of its n
\* texture inputs).
C18_NoReadWriteAliasing ==
  IsRun =>
    \A k \in 1 .. Len(DrawCalls) :
      \A u \in 0 .. TexInputs(lastCall.node.params) - 1 :
        DrawCalls[k].units[u] # DrawCalls[k].att
\* the texture units the last operation selected and bound a texture to
UnitsBound ==
  { lastCall.log[i].arg : i \in { j \in 1 .. Len(lastCall.log) - 1 :
                                    /\ lastCall.log[j].e = "glActiveTexture"
                                    /\ lastCall.log[j + 1].e = "glBindTexture" } }

\* C19: when RunNodeAccelerated returns, every texture unit it bound a texture to,
\* for an input or for the feedback of an iteration, holds no texture.
C19_NoUnitLeftBound ==
  IsRun => \A u \in UnitsBound : gl.units[u] = 0
IsEnable(x) == x.e = "Enable"

\* C20: a fast upload runs the GPU transform of a processor that is enabled on the
\* proxy's current context; an upload enables a processor at most once, and only in
\* the fast method.
C20_TransformOnLiveContext ==
  IsUpload =>
    LET enables == SelectSeq(lastCall.log, IsEnable)
    IN  /\ Len(enables) <= 1
        /\ lastCall.mode # "Fast" => enables = << >>
        /\ lastCall.mode = "Fast" =>
             /\ processors[lastCall.proc].enabled = ctx_
             /\ contexts[ctx_].destroyed = 0
====
